---- MODULE Spec2Model ----
(***************************************************************************)
(* Gasless NPY transfer: the TransactionForm component (handleSubmit and   *)
(* saveTransactionToDB), the useBiconomy hook that owns the session        *)
(* handles, and the environment-supplied configuration.                    *)
(*                                                                         *)
(* Strings that the code inspects are sequences of one-character strings,  *)
(* so that toLowerCase and parseUnits are computed, not assumed.           *)
(***************************************************************************)
EXTENDS Integers, Sequences, FiniteSets, TLC

\* ---------------------------------------------------------------- bounds
MaxInFlight == 2
MaxInits == 1

\* ------------------------------------------------------- program constants
Decimals == 18

\* ------------------------------------------------------------- addresses
NoAddr == << >>
UserAddrs == { <<"A", "b">> }
RelayerAddr == <<"b", "b">>

LowerChar(c) ==
  CASE c = "A" -> "a"
    [] c = "B" -> "b"
    [] OTHER -> c

toLowerCase(s) == [k \in 1..Len(s) |-> LowerChar(s[k])]

\* --------------------------------------------------------- configuration
\* import.meta.env: a variable that is not supplied is the empty sequence.
NpyToken == <<"a", "B">>
RpcUrl == <<"r">>
DefaultRpc == <<"p">>
EnvChoices == [token : {NoAddr, NpyToken}, rpc : {NoAddr, RpcUrl}]

\* config.ts: http(VITE_POLYGON_RPC_URL || "https://polygon-rpc.com")
ConfigTransport(e) == IF e.rpc # NoAddr THEN e.rpc ELSE DefaultRpc

\* useBiconomy.ts: http(VITE_POLYGON_RPC_URL); http(undefined) uses the
\* chain's built-in default endpoint.
InitTransport(e) == IF e.rpc # NoAddr THEN e.rpc ELSE DefaultRpc

\* ------------------------------------------------------------ form values
Recipients == { << >>, <<"b", "A">> }
Amounts == { << >>, <<"0">>, <<"1", "0">>, <<"-", "1">>, <<"1", "e", "1">> }
ResetForm == [recipient |-> <<"0", "x">>, amount |-> << >>]

DigitChars == {"0", "1"}
IsDigits(s) == \A k \in 1..Len(s) : s[k] \in DigitChars
DigitOf(c) == IF c = "1" THEN 1 ELSE 0

RECURSIVE DigitsValue(_)
DigitsValue(s) ==
  IF Len(s) = 0 THEN 0
  ELSE 10 * DigitsValue(SubSeq(s, 1, Len(s) - 1)) + DigitOf(s[Len(s)])

RECURSIVE Pow10(_)
Pow10(n) == IF n = 0 THEN 1 ELSE 10 * Pow10(n - 1)

IsNegative(s) == Len(s) > 0 /\ s[1] = "-"
Unsigned(s) == IF IsNegative(s) THEN Tail(s) ELSE s
ExpAt(s) == { k \in 1..Len(s) : s[k] = "e" }

\* The value an <input type="number"> gives its text: [ok, neg, val].
\* A valid floating-point number is digits, optionally signed, optionally
\* followed by an exponent.
NumberValue(s) ==
  LET u == Unsigned(s) IN
  IF ExpAt(u) = {} THEN
    [ok |-> Len(u) > 0 /\ IsDigits(u), neg |-> IsNegative(s),
     val |-> IF IsDigits(u) THEN DigitsValue(u) ELSE 0]
  ELSE
    LET k == CHOOSE j \in ExpAt(u) : TRUE
        m == SubSeq(u, 1, k - 1)
        x == SubSeq(u, k + 1, Len(u))
        good == Len(m) > 0 /\ IsDigits(m) /\ Len(x) > 0 /\ IsDigits(x)
    IN [ok |-> good, neg |-> IsNegative(s),
        val |-> IF good THEN DigitsValue(m) * Pow10(DigitsValue(x)) ELSE 0]

\* Browser constraint validation of the two inputs: both are `required`,
\* the amount is type="number" with min="0".
FormValid(f) ==
  /\ Len(f.recipient) > 0
  /\ Len(f.amount) > 0
  /\ NumberValue(f.amount).ok
  /\ (NumberValue(f.amount).neg => NumberValue(f.amount).val = 0)

\* viem parseUnits(value, 18): rejects anything that is not an optionally
\* signed decimal literal; otherwise the amount in base units is
\* units * 10^Decimals (kept as the pair, a bigint has no width).
parseUnits(s) ==
  LET u == Unsigned(s) IN
  IF IsDigits(u)
    THEN [ok |-> TRUE, neg |-> IsNegative(s) /\ DigitsValue(u) > 0,
          units |-> DigitsValue(u), exp |-> Decimals]
    ELSE [ok |-> FALSE, neg |-> FALSE, units |-> 0, exp |-> Decimals]

\* ----------------------------------------------------------------- errors
\* A rejection value: either it carries a message (abstracted to the set of
\* the probed phrases it contains) or it has none (undefined, a string, an
\* object without .message).
Err(ws) == [hasMessage |-> TRUE, words |-> ws]
NoMessageErr == [hasMessage |-> FALSE, words |-> {}]
PlainErr == Err({})
RemoteErrors ==
  { NoMessageErr, PlainErr, Err({"insufficient funds"}), Err({"sponsorship"}) }

\* -------------------------------------------------------------- handles
NullHandle == [live |-> FALSE, owner |-> NoAddr]
HandleFor(a) == [live |-> TRUE, owner |-> a]

VARIABLES
  env,          \* import.meta.env (token address, RPC URL)
  config,       \* the wagmi config created when utils/config.ts is loaded
  address,      \* useAccount().address, NoAddr when disconnected
  meeClient,    \* useBiconomy state
  orchestrator, \* useBiconomy state
  hookLoading,  \* useBiconomy loading
  inits,        \* initBiconomy invocations in flight
  formData,     \* TransactionForm state
  loading,      \* TransactionForm state
  subs          \* handleSubmit invocations: those in flight, and the
                \* finished ones until the next submit event

vars == <<env, config, address, meeClient, orchestrator, hookLoading, inits,
          formData, loading, subs>>

\* ------------------------------------------------------- remote responses
\* getFusionQuote response: null/undefined, or an object whose three
\* sponsorship indicators are each truthy or not.
QuoteShapes ==
  [isNull : {FALSE}, sponsor : BOOLEAN, sponsored : BOOLEAN, isSponsored : BOOLEAN]
  \cup {[isNull |-> TRUE, sponsor |-> FALSE, sponsored |-> FALSE, isSponsored |-> FALSE]}

\* A field of a mined transaction: absent (or ""), a string, or a truthy
\* value that is not a string.
Absent == [kind |-> "absent", val |-> << >>]
Str(a) == [kind |-> "string", val |-> a]
NotAString == [kind |-> "number", val |-> << >>]
Truthy(f) == f.kind = "number" \/ (f.kind = "string" /\ Len(f.val) > 0)

TxHash == <<"1">>
Mined(f, fa, sd) ==
  [from |-> f, fromAddress |-> fa, sender |-> sd, transactionHash |-> TxHash]
MinedShapes ==
  { Mined(Str(<<"a", "b">>), Absent, Absent),
    Mined(Str(RelayerAddr), Absent, Absent),
    Mined(Absent, Str(<<"a", "B">>), Absent),
    Mined(Absent, Absent, Absent),
    Mined(NotAString, Absent, Absent) }

Statuses == {"SUCCESS", "MINED_SUCCESS", "FAILED"}
successStatuses == {"SUCCESS", "MINED_SUCCESS"}
NullReceipt == [isNull |-> TRUE, transactionStatus |-> "PENDING", receipts |-> << >>]
Receipts ==
  { [isNull |-> FALSE, transactionStatus |-> st, receipts |-> rs] :
      st \in Statuses, rs \in {<< >>} \cup { <<m>> : m \in MinedShapes } }
  \cup {NullReceipt}

\* Outcomes of the POST /api/transaction request as saveTransactionToDB
\* sees them.
PersistResults == {"network_error", "http_500", "ok_json", "ok_bad_body"}

\* ------------------------------------------------------------ submissions
NoCalls == [build |-> 0, quote |-> 0, execute |-> 0, await |-> 0, save |-> 0]

NewSub(a, m, o, f, e) ==
  [pc |-> "start", outcome |-> "NONE", uncaught |-> FALSE,
   step |-> "guard", error |-> << >>,
   address |-> a, meeClient |-> m, orchestrator |-> o,
   recipient |-> f.recipient, amount |-> f.amount, token |-> e.token,
   sponsorAvailable |-> "NONE", receipt |-> << >>, payer |-> "NONE",
   persist |-> "NONE", txHash |-> << >>, toasts |-> << >>, calls |-> NoCalls]

Toast(s, t) == [s EXCEPT !.toasts = Append(@, t)]
Call(s, c, next) == [s EXCEPT !.calls[c] = @ + 1, !.pc = next, !.step = next]
InFlight(s) == s.pc # "done"
Finished(s) == s.pc = "done"

\* ----------------------------------------------------- handleSubmit pieces
\* Line 31: the only precondition the handler checks.
GuardFails(m, o, a) == ~m.live \/ ~o.live \/ a = NoAddr

\* Lines 31-34: advisory toast, return; loading is never set.
Reject(s) ==
  [Toast(s, "connect_wallet") EXCEPT !.pc = "done", !.outcome = "FAILED"]

sponsorAvailableSponsorOnly(q) == ~q.isNull /\ q.sponsor

\* Line 76.
sponsorAvailable(q) == ~q.isNull /\ (q.sponsor \/ q.sponsored \/ q.isSponsored)

\* Lines 156-169: the catch block reads error.message.includes(...); a value
\* without a message makes the catch block itself throw, and the rejection
\* leaves handleSubmit after the finally block.
Catch(s, e) ==
  IF ~e.hasMessage
    THEN [s EXCEPT !.pc = "done", !.uncaught = TRUE, !.error = <<e>>]
    ELSE LET t == IF "insufficient funds" \in e.words THEN "gas_tank_empty"
                  ELSE IF "sponsorship" \in e.words THEN "sponsorship_not_enabled"
                  ELSE "transaction_failed"
         IN [Toast(s, t) EXCEPT !.pc = "done", !.outcome = "FAILED", !.error = <<e>>]

\* Line 115: minedReceipt.from || minedReceipt.fromAddress || minedReceipt.sender || ""
FirstTruthy(m) ==
  IF Truthy(m.from) THEN m.from
  ELSE IF Truthy(m.fromAddress) THEN m.fromAddress
  ELSE IF Truthy(m.sender) THEN m.sender
  ELSE Str(<< >>)

\* Lines 111-129: who paid gas.  A value without toLowerCase throws inside
\* the inner try and is only logged.
DetectPayer(s, r) ==
  IF r.isNull \/ Len(r.receipts) = 0
    THEN [s EXCEPT !.payer = "UNKNOWN"]
    ELSE LET f == FirstTruthy(r.receipts[1]) IN
         IF f.kind # "string"
           THEN [s EXCEPT !.payer = "UNKNOWN"]
           ELSE IF toLowerCase(f.val) = toLowerCase(s.address)
                  THEN [Toast(s, "user_paid_gas") EXCEPT !.payer = "USER_PAID"]
                  ELSE [Toast(s, "executed_gaslessly") EXCEPT !.payer = "SPONSORED"]

SettledAnyStatus(r) == ~r.isNull /\ Len(r.receipts) > 0

\* Lines 132-136.
Settled(r) ==
  /\ ~r.isNull
  /\ r.transactionStatus \in successStatuses
  /\ Len(r.receipts) > 0

\* Lines 172-189: does the promise of saveTransactionToDB reject?  fetch
\* failures and non-ok responses are thrown inside the try and caught; the
\* promise of response.json() is returned without being awaited, so its
\* rejection is not seen by the catch block.
SaveRejects(p) == p = "ok_bad_body"

\* ----------------------------------------------------------------- state
Init ==
  /\ env \in EnvChoices
  /\ config = [transport |-> ConfigTransport(env)]
  /\ address = NoAddr
  /\ meeClient = NullHandle
  /\ orchestrator = NullHandle
  /\ hookLoading = FALSE
  /\ inits = << >>
  /\ formData = [recipient |-> << >>, amount |-> << >>]
  /\ loading = FALSE
  /\ subs = << >>

RemoveAt(q, k) == SubSeq(q, 1, k - 1) \o SubSeq(q, k + 1, Len(q))

\* ------------------------------------------------------------ useBiconomy
\* Lines 32-53: the synchronous part of initBiconomy up to the first await.
StartInit(a) ==
  /\ hookLoading' = TRUE
  /\ inits' = Append(inits, [addr |-> a, pc |-> "account", transport |-> InitTransport(env)])

\* The wallet connects or switches account; the effect of lines 23-30 runs
\* with the new address and calls initBiconomy.
Connect(a) ==
  /\ a # address
  /\ Len(inits) < MaxInits
  /\ address' = a
  /\ StartInit(a)
  /\ UNCHANGED <<env, config, meeClient, orchestrator, formData, loading, subs>>

\* The wallet disconnects; the effect takes the else branch.
Disconnect ==
  /\ address # NoAddr
  /\ address' = NoAddr
  /\ meeClient' = NullHandle
  /\ orchestrator' = NullHandle
  /\ UNCHANGED <<env, config, hookLoading, inits, formData, loading, subs>>

\* toMultichainNexusAccount resolves; createMeeClient is awaited next.
InitAccountOk(k) ==
  /\ k \in 1..Len(inits)
  /\ inits[k].pc = "account"
  /\ inits' = [inits EXCEPT ![k].pc = "client"]
  /\ UNCHANGED <<env, config, address, meeClient, orchestrator, hookLoading, formData,
                 loading, subs>>

\* createMeeClient resolves: lines 61-62, then finally.
InitClientOk(k) ==
  /\ k \in 1..Len(inits)
  /\ inits[k].pc = "client"
  /\ orchestrator' = HandleFor(inits[k].addr)
  /\ meeClient' = HandleFor(inits[k].addr)
  /\ hookLoading' = FALSE
  /\ inits' = RemoveAt(inits, k)
  /\ UNCHANGED <<env, config, address, formData, loading, subs>>

\* Either awaited call rejects: lines 64-68.
InitFails(k) ==
  /\ k \in 1..Len(inits)
  /\ hookLoading' = FALSE
  /\ inits' = RemoveAt(inits, k)
  /\ UNCHANGED <<env, config, address, meeClient, orchestrator, formData, loading,
                 subs>>

\* ------------------------------------------------------- TransactionForm
\* Lines 210-243: the inputs are disabled while loading.
SetRecipient(r) ==
  /\ ~loading
  /\ r # formData.recipient
  /\ formData' = [formData EXCEPT !.recipient = r]
  /\ UNCHANGED <<env, config, address, meeClient, orchestrator, hookLoading, inits,
                 loading, subs>>

SetAmount(a) ==
  /\ ~loading
  /\ a # formData.amount
  /\ formData' = [formData EXCEPT !.amount = a]
  /\ UNCHANGED <<env, config, address, meeClient, orchestrator, hookLoading, inits,
                 loading, subs>>

ButtonDisabledNoLoading == ~meeClient.live

\* Lines 246-250: disabled={loading || !meeClient}
ButtonDisabled == loading \/ ~meeClient.live

\* Lines 28-56: a submit event and the synchronous part of handleSubmit up
\* to the first await.
Submitted ==
  LET s0 == NewSub(address, meeClient, orchestrator, formData, env) IN
  IF GuardFails(meeClient, orchestrator, address) THEN Reject(s0)
  ELSE IF ~parseUnits(formData.amount).ok
         THEN Catch([s0 EXCEPT !.step = "parse"], PlainErr)
         ELSE Call(s0, "build", "build")

Submit ==
  /\ Len(SelectSeq(subs, InFlight)) < MaxInFlight
  /\ FormValid(formData)
  /\ ~ButtonDisabled
  /\ subs' = Append(SelectSeq(subs, InFlight), Submitted)
  /\ loading' = IF GuardFails(meeClient, orchestrator, address)
                  THEN loading ELSE InFlight(Submitted)
  /\ UNCHANGED <<env, config, address, meeClient, orchestrator, hookLoading, inits, formData>>

StepWithoutFinally(i, t) ==
  /\ subs' = [subs EXCEPT ![i] = t]
  /\ loading' = IF Finished(t) /\ ~t.uncaught THEN FALSE ELSE loading

\* A step of an in-flight handleSubmit replaces its record by t; the finally
\* block (line 168) runs when the handler ends.
Step(i, t) ==
  /\ subs' = [subs EXCEPT ![i] = t]
  /\ loading' = IF Finished(t) THEN FALSE ELSE loading

\* Lines 47-72: buildComposable settles.
BuildReturns(i, ok, e) ==
  /\ i \in 1..Len(subs)
  /\ subs[i].pc = "build"
  /\ Step(i, IF ok THEN Call(subs[i], "quote", "quote") ELSE Catch(subs[i], e))
  /\ UNCHANGED <<env, config, address, meeClient, orchestrator, hookLoading, inits,
                 formData>>

QuotedAbortUnsponsored(s, q) ==
  LET a == sponsorAvailable(q)
      s1 == [s EXCEPT !.sponsorAvailable = IF a THEN "YES" ELSE "NO"]
  IN IF a THEN Call(s1, "execute", "execute")
     ELSE Catch(s1, Err({"sponsorship"}))

QuotedWithFallback(s, q) ==
  LET a == sponsorAvailable(q)
      s1 == [s EXCEPT !.sponsorAvailable = IF a THEN "YES" ELSE "NO"]
      s2 == IF a THEN s1
            ELSE Call(Toast(s1, "sponsorship_not_available"), "execute", "execute")
  IN Call(s2, "execute", "execute")

\* Lines 64-100: getFusionQuote settles.
Quoted(s, q) ==
  LET a == sponsorAvailable(q)
      s1 == [s EXCEPT !.sponsorAvailable = IF a THEN "YES" ELSE "NO"]
      s2 == IF a THEN s1 ELSE Toast(s1, "sponsorship_not_available")
  IN Call(s2, "execute", "execute")

QuoteReturns(i, ok, q, e) ==
  /\ i \in 1..Len(subs)
  /\ subs[i].pc = "quote"
  /\ Step(i, IF ok THEN Quoted(subs[i], q) ELSE Catch(subs[i], e))
  /\ UNCHANGED <<env, config, address, meeClient, orchestrator, hookLoading, inits,
                 formData>>

ExecuteReturnsIgnoringError(i, ok, e) ==
  /\ i \in 1..Len(subs)
  /\ subs[i].pc = "execute"
  /\ Step(i, Call(IF ok THEN subs[i] ELSE [subs[i] EXCEPT !.error = <<e>>],
                  "await", "await"))
  /\ UNCHANGED <<env, config, address, meeClient, orchestrator, hookLoading, inits,
                 formData>>

\* Lines 98-107: executeFusionQuote settles.
ExecuteReturns(i, ok, e) ==
  /\ i \in 1..Len(subs)
  /\ subs[i].pc = "execute"
  /\ Step(i, IF ok THEN Call(subs[i], "await", "await") ELSE Catch(subs[i], e))
  /\ UNCHANGED <<env, config, address, meeClient, orchestrator, hookLoading, inits,
                 formData>>

\* Lines 105-155: waitForSupertransactionReceipt settles.
Reconciled(s, r) ==
  LET s1 == DetectPayer([s EXCEPT !.receipt = <<r>>], r) IN
  IF Settled(r)
    THEN Call([s1 EXCEPT !.txHash = r.receipts[1].transactionHash], "save", "save")
    ELSE Catch(s1, PlainErr)

SettlementReturns(i, ok, r, e) ==
  /\ i \in 1..Len(subs)
  /\ subs[i].pc = "await"
  /\ Step(i, IF ok THEN Reconciled(subs[i], r) ELSE Catch(subs[i], e))
  /\ UNCHANGED <<env, config, address, meeClient, orchestrator, hookLoading, inits,
                 formData>>

\* Lines 140-150: saveTransactionToDB settles.
Saved(s, p) ==
  LET s1 == [s EXCEPT !.persist = p] IN
  IF SaveRejects(p)
    THEN Catch(s1, PlainErr)
    ELSE [Toast(s1, "gasless_success") EXCEPT !.pc = "done", !.outcome = "COMPLETED"]

PersistReturnsAlwaysReset(i, p) ==
  /\ i \in 1..Len(subs)
  /\ subs[i].pc = "save"
  /\ Step(i, Saved(subs[i], p))
  /\ formData' = ResetForm
  /\ UNCHANGED <<env, config, address, meeClient, orchestrator, hookLoading, inits>>

PersistReturns(i, p) ==
  /\ i \in 1..Len(subs)
  /\ subs[i].pc = "save"
  /\ Step(i, Saved(subs[i], p))
  /\ formData' = IF Saved(subs[i], p).outcome = "COMPLETED" THEN ResetForm ELSE formData
  /\ UNCHANGED <<env, config, address, meeClient, orchestrator, hookLoading, inits>>

Slots == 1..MaxInFlight
InitSlots == 1..MaxInits

Next ==
  \/ \E a \in UserAddrs : Connect(a)
  \/ Disconnect
  \/ \E k \in InitSlots : InitAccountOk(k)
  \/ \E k \in InitSlots : InitClientOk(k)
  \/ \E k \in InitSlots : InitFails(k)
  \/ \E r \in Recipients : SetRecipient(r)
  \/ \E a \in Amounts : SetAmount(a)
  \/ Submit
  \/ \E i \in Slots, ok \in BOOLEAN, e \in RemoteErrors : BuildReturns(i, ok, e)
  \/ \E i \in Slots, ok \in BOOLEAN, q \in QuoteShapes, e \in RemoteErrors :
       QuoteReturns(i, ok, q, e)
  \/ \E i \in Slots, ok \in BOOLEAN, e \in RemoteErrors : ExecuteReturns(i, ok, e)
  \/ \E i \in Slots, ok \in BOOLEAN, r \in Receipts, e \in RemoteErrors :
       SettlementReturns(i, ok, r, e)
  \/ \E i \in Slots, p \in PersistResults : PersistReturns(i, p)

Spec == Init /\ [][Next]_vars

\* ================================================================ claims
SubSet == { subs[i] : i \in 1..Len(subs) }
TotalCalls(s) ==
  s.calls.build + s.calls.quote + s.calls.execute + s.calls.await + s.calls.save
ToastCount(s, kinds) == Cardinality({ k \in 1..Len(s.toasts) : s.toasts[k] \in kinds })
SuccessToasts == {"executed_gaslessly", "user_paid_gas", "gasless_success"}
GaslessToasts == {"executed_gaslessly", "gasless_success"}
FailureToasts ==
  {"connect_wallet", "gas_tank_empty", "sponsorship_not_enabled", "transaction_failed"}
HasReceipt(s) == Len(s.receipt) = 1
AmountPositive(a) ==
  NumberValue(a).ok /\ ~NumberValue(a).neg /\ NumberValue(a).val > 0
PreconditionViolated(s) ==
  \/ ~AmountPositive(s.amount)
  \/ s.address = NoAddr
  \/ ~s.meeClient.live
  \/ ~s.orchestrator.live

\* C1: a submission whose amount is not positive, or that has no connected
\* address or no account/relay handle, is finished as FAILED at once and
\* has issued no remote call at all.
C1_PreconditionNoCalls ==
  \A s \in SubSet :
    PreconditionViolated(s) =>
      Finished(s) /\ s.outcome = "FAILED" /\ TotalCalls(s) = 0

\* C2: at most one submission is in flight at any time.
C2_AtMostOneInFlight ==
  Cardinality({ i \in 1..Len(subs) : InFlight(subs[i]) }) <= 1

\* A submission is in flight while the form is otherwise ready for another
\* submit event (valid fields, live relay handle).
C2_Witness ==
  /\ \E s \in SubSet : InFlight(s) /\ s.calls.quote = 1
  /\ FormValid(formData)
  /\ meeClient.live

\* C3: every handleSubmit that has ended has exactly one terminal outcome,
\* COMPLETED or FAILED.
C3_TerminalOutcome ==
  \A s \in SubSet : Finished(s) => s.outcome \in {"COMPLETED", "FAILED"}

\* C4: within one submission execute is called at most once, and only
\* after a quote was received, whether or not sponsorship was detected.
C4_ExecuteAtMostOnce ==
  \A s \in SubSet :
    /\ s.calls.execute <= 1
    /\ s.calls.execute <= s.calls.quote
    /\ (s.calls.execute = 1 => s.sponsorAvailable \in {"YES", "NO"})

\* execute was called for a quote without any sponsorship indicator.
C4_Witness ==
  \E s \in SubSet : s.calls.execute = 1 /\ s.sponsorAvailable = "NO" /\ s.calls.await = 1

\* C5: when the persistence request ends in anything but success, the
\* submission still ends COMPLETED and reports no failure.
C5_PersistFailureSwallowed ==
  \A s \in SubSet :
    (Finished(s) /\ s.persist \notin {"NONE", "ok_json"}) =>
      s.outcome = "COMPLETED" /\ ToastCount(s, FailureToasts) = 0

\* C6: a first mined transaction sent by the user (case-insensitively) is
\* USER_PAID, one sent by anyone else is SPONSORED, no mined transaction is
\* UNKNOWN and FAILED; SUCCESS with one mined transaction from the relayer
\* ends COMPLETED, SPONSORED, with that transaction's hash.
C6_PayerClassification ==
  \A s \in SubSet :
    HasReceipt(s) =>
      LET r == s.receipt[1]
          mined == ~r.isNull /\ Len(r.receipts) > 0
      IN /\ (mined /\ FirstTruthy(r.receipts[1]).kind = "string") =>
              IF toLowerCase(FirstTruthy(r.receipts[1]).val) = toLowerCase(s.address)
                THEN s.payer = "USER_PAID"
                ELSE s.payer = "SPONSORED"
         /\ ~mined => s.payer = "UNKNOWN" /\ Finished(s) /\ s.outcome = "FAILED"
         /\ (/\ mined
             /\ r.transactionStatus = "SUCCESS"
             /\ r.receipts[1].from = Str(RelayerAddr)
             /\ Finished(s))
            => /\ s.outcome = "COMPLETED"
               /\ s.payer = "SPONSORED"
               /\ s.txHash = r.receipts[1].transactionHash

\* C7: COMPLETED requires a receipt with status SUCCESS or MINED_SUCCESS and
\* at least one mined transaction; any other receipt ends the submission
\* FAILED without a persistence call.
C7_CompletedOnlyIfSettled ==
  \A s \in SubSet :
    /\ s.outcome = "COMPLETED" =>
         /\ HasReceipt(s)
         /\ ~s.receipt[1].isNull
         /\ s.receipt[1].transactionStatus \in {"SUCCESS", "MINED_SUCCESS"}
         /\ Len(s.receipt[1].receipts) >= 1
    /\ (/\ HasReceipt(s)
        /\ \/ s.receipt[1].isNull
           \/ s.receipt[1].transactionStatus \notin {"SUCCESS", "MINED_SUCCESS"}
           \/ Len(s.receipt[1].receipts) = 0)
       => /\ Finished(s)
          /\ s.outcome = "FAILED"
          /\ s.calls.save = 0
          /\ s.persist = "NONE"

\* A receipt with status FAILED that lists a mined transaction ended FAILED.
C7_Witness ==
  \E s \in SubSet :
    /\ HasReceipt(s)
    /\ ~s.receipt[1].isNull
    /\ s.receipt[1].transactionStatus = "FAILED"
    /\ Len(s.receipt[1].receipts) = 1
    /\ s.outcome = "FAILED"

\* C8: a FAILED submission shows exactly one failure notification and no
\* success notification; a COMPLETED one shows exactly one success
\* notification and no failure notification, and a user-paid transfer is
\* not announced as gasless.
C8_OneNotification ==
  \A s \in SubSet :
    /\ (Finished(s) /\ s.outcome = "FAILED") =>
         ToastCount(s, FailureToasts) = 1 /\ ToastCount(s, SuccessToasts) = 0
    /\ (Finished(s) /\ s.outcome = "COMPLETED") =>
         /\ ToastCount(s, SuccessToasts) = 1
         /\ ToastCount(s, FailureToasts) = 0
         /\ (s.payer = "USER_PAID" => ToastCount(s, GaslessToasts) = 0)

\* C9: no error leaves handleSubmit uncaught; a submission that met an
\* error ends FAILED with a message.
C9_NoUncaughtError ==
  \A s \in SubSet :
    /\ ~s.uncaught
    /\ Len(s.error) = 1 => (s.outcome = "FAILED" /\ s.error[1].hasMessage)

\* C10: with the token address or the RPC URL missing from the environment
\* nothing is initialised and no transfer step runs; no instruction is
\* built for an absent token address and no default endpoint is used.
C10_ConfigRequired ==
  /\ (env.token = NoAddr \/ env.rpc = NoAddr) =>
       /\ ~meeClient.live
       /\ ~orchestrator.live
       /\ \A s \in SubSet : TotalCalls(s) = 0
  /\ \A s \in SubSet : s.calls.build > 0 => s.token # NoAddr
  /\ config.transport # DefaultRpc
  /\ \A k \in 1..Len(inits) : inits[k].transport # DefaultRpc

\* The calls a submission has issued when its last issued step is st.
CallsUpTo(st) ==
  [build |-> IF st \in {"build", "quote", "execute", "await", "save"} THEN 1 ELSE 0,
   quote |-> IF st \in {"quote", "execute", "await", "save"} THEN 1 ELSE 0,
   execute |-> IF st \in {"execute", "await", "save"} THEN 1 ELSE 0,
   await |-> IF st \in {"await", "save"} THEN 1 ELSE 0,
   save |-> IF st = "save" THEN 1 ELSE 0]

\* C11: the remote steps are issued one after the other in the order build,
\* quote, execute, awaitSettlement: the calls issued are exactly those up to
\* the last issued step, a submission that met an error has ended without
\* issuing a later step, and persistence is issued only for a receipt with a
\* success status and a mined transaction.
C11_StrictlySequential ==
  \A s \in SubSet :
    /\ s.calls = CallsUpTo(s.step)
    /\ InFlight(s) => s.pc = s.step /\ Len(s.error) = 0
    /\ Len(s.error) = 1 => Finished(s)
    /\ s.calls.save = 1 =>
         /\ HasReceipt(s)
         /\ ~s.receipt[1].isNull
         /\ s.receipt[1].transactionStatus \in {"SUCCESS", "MINED_SUCCESS"}
         /\ Len(s.receipt[1].receipts) >= 1

\* execute failed and awaitSettlement was never issued.
C11_Witness ==
  \E s \in SubSet :
    Finished(s) /\ Len(s.error) = 1 /\ s.step = "execute" /\ s.calls.await = 0

\* C12: a received quote is always followed by execute; a quote without
\* detected sponsorship adds one advisory and is never itself the reason
\* the submission ends.
C12_ExecuteAfterQuote ==
  \A s \in SubSet :
    /\ s.sponsorAvailable \in {"YES", "NO"} =>
         s.calls.execute = 1 /\ s.step \in {"execute", "await", "save"}
    /\ s.sponsorAvailable = "NO" => ToastCount(s, {"sponsorship_not_available"}) = 1
    /\ s.sponsorAvailable # "NO" => ToastCount(s, {"sponsorship_not_available"}) = 0

\* A transfer whose quote showed no sponsorship completed.
C12_Witness ==
  \E s \in SubSet : s.sponsorAvailable = "NO" /\ s.outcome = "COMPLETED"

\* C14: a mined transaction without a usable from address is classified
\* UNKNOWN, and a receipt with a success status and a mined transaction
\* always ends COMPLETED, whatever the classification.
C14_ReconciliationNeverFails ==
  \A s \in SubSet :
    HasReceipt(s) =>
      LET r == s.receipt[1]
          mined == ~r.isNull /\ Len(r.receipts) > 0
          usable == /\ mined
                    /\ FirstTruthy(r.receipts[1]).kind = "string"
                    /\ Len(FirstTruthy(r.receipts[1]).val) > 0
      IN /\ (mined /\ ~usable) => s.payer = "UNKNOWN"
         /\ (/\ mined
             /\ r.transactionStatus \in {"SUCCESS", "MINED_SUCCESS"}
             /\ Finished(s))
            => s.outcome = "COMPLETED"

\* C15: while the persistence request is pending the submission is already
\* COMPLETED: the success notification has been shown and the form is no
\* longer loading.
C15_PersistenceFireAndForget ==
  \A s \in SubSet :
    (s.calls.save = 1 /\ s.persist = "NONE") =>
      /\ s.outcome = "COMPLETED"
      /\ ToastCount(s, {"gasless_success"}) = 1
      /\ ~loading

\* ------------------------------------------------------ session lifecycle
\* The wallet side on its own: two accounts to switch between, a complete
\* environment, one valid intent, and a transfer that fails at its first
\* remote step.
SecondAddr == <<"B", "a">>
SessionAddrs == UserAddrs \cup {SecondAddr}
FullEnv == [token |-> NpyToken, rpc |-> RpcUrl]
SessionInit == Init /\ env = FullEnv

SessionNext ==
  \/ \E a \in SessionAddrs : Connect(a)
  \/ Disconnect
  \/ \E k \in InitSlots : InitAccountOk(k)
  \/ \E k \in InitSlots : InitClientOk(k)
  \/ \E k \in InitSlots : InitFails(k)
  \/ SetRecipient(<<"b", "A">>)
  \/ SetAmount(<<"1", "0">>)
  \/ Submit
  \/ \E i \in Slots : BuildReturns(i, FALSE, PlainErr)

SessionSpec == SessionInit /\ [][SessionNext]_vars

\* C16: when the initialization for the connected address fails, the
\* session holds neither handle afterwards (so the guard of handleSubmit
\* rejects a submit), also if an earlier initialization had succeeded.
C16_FailedInitLeavesNoHandle ==
  [][\A k \in InitSlots :
       (InitFails(k) /\ inits[k].addr = address) =>
         ~meeClient'.live /\ ~orchestrator'.live]_vars

\* C17: while the wallet is disconnected both handles are null.
C17_NoHandleWhenDisconnected ==
  address = NoAddr => ~meeClient.live /\ ~orchestrator.live

\* C18: live handles belong to the connected address, and every submission
\* that passed the guard used handles created for the address it submits
\* for.
C18_HandlesMatchAddress ==
  /\ (address # NoAddr /\ meeClient.live) => meeClient.owner = address
  /\ (address # NoAddr /\ orchestrator.live) => orchestrator.owner = address
  /\ \A s \in SubSet :
       s.calls.build > 0 =>
         s.meeClient.owner = s.address /\ s.orchestrator.owner = s.address

\* C19: loading is true exactly while some submission is in flight; it is
\* false once every submission has ended, whether COMPLETED, FAILED,
\* rejected by the guard or left through a throwing catch block.
C19_LoadingIffInFlight ==
  loading = (\E s \in SubSet : InFlight(s))

\* A submission whose catch block threw has ended and the form is not
\* loading.
C19_Witness ==
  \E s \in SubSet : Finished(s) /\ s.uncaught /\ s.calls.build = 1 /\ ~loading

\* C20: a step of handleSubmit changes the form fields only by resetting
\* them, in the step in which that submission becomes COMPLETED; no remote
\* step is issued twice for one submission.
C20_FormKeptUnlessCompleted ==
  /\ [](\A s \in SubSet :
          \A c \in {"build", "quote", "execute", "await", "save"} : s.calls[c] <= 1)
  /\ [][(subs' # subs /\ formData' # formData) =>
          /\ formData' = ResetForm
          /\ \E i \in 1..Len(subs) :
               /\ InFlight(subs[i])
               /\ i <= Len(subs')
               /\ subs'[i].outcome = "COMPLETED"]_vars

\* A transfer that failed after its first remote step left the entered
\* recipient and amount in the form.
C20_Witness ==
  \E s \in SubSet :
    /\ Finished(s)
    /\ s.outcome = "FAILED"
    /\ s.calls.execute = 1
    /\ formData = [recipient |-> s.recipient, amount |-> s.amount]

\* ------------------------------------------------------ quote negotiation
\* One account with a complete environment; the quote step sees every
\* response shape and every rejection, the steps around it one outcome
\* each.
QuoteInit == Init /\ env = FullEnv

QuoteNext ==
  \/ \E a \in UserAddrs : Connect(a)
  \/ Disconnect
  \/ \E k \in InitSlots : InitAccountOk(k)
  \/ \E k \in InitSlots : InitClientOk(k)
  \/ \E k \in InitSlots : InitFails(k)
  \/ \E r \in Recipients : SetRecipient(r)
  \/ \E a \in Amounts : SetAmount(a)
  \/ Submit
  \/ \E i \in Slots : BuildReturns(i, TRUE, PlainErr)
  \/ \E i \in Slots, ok \in BOOLEAN, q \in QuoteShapes, e \in RemoteErrors :
       QuoteReturns(i, ok, q, e)
  \/ \E i \in Slots, e \in RemoteErrors : ExecuteReturns(i, FALSE, e)

QuoteSpec == QuoteInit /\ [][QuoteNext]_vars

\* C13: when a quote response arrives, sponsorship counts as granted exactly
\* if the response is an object with a truthy sponsor, sponsored or
\* isSponsored; otherwise, a null response included, it counts as uncertain
\* and the submission goes on without an error.
C13_SponsorshipDetection ==
  [][\A i \in Slots, q \in QuoteShapes :
       (\E e \in RemoteErrors : QuoteReturns(i, TRUE, q, e)) =>
         /\ subs'[i].sponsorAvailable =
              IF q.isNull THEN "NO"
              ELSE IF q.sponsor \/ q.sponsored \/ q.isSponsored THEN "YES" ELSE "NO"
         /\ InFlight(subs'[i])
         /\ Len(subs'[i].error) = 0]_vars

\* A quote was taken as sponsored and execute is pending.
C13_Witness ==
  \E s \in SubSet : s.sponsorAvailable = "YES" /\ s.pc = "execute"

====
